---- MODULE Spec2Model ----
(***************************************************************************)
(* Model of src/app.py: a Flask application that builds a PDF from an      *)
(* uploaded ZIP archive (POST /build), records the result in the global    *)
(* JOBS dictionary, serves it (GET /done/<id>, GET /download/<id>) and     *)
(* reclaims expired jobs in a before_request hook.                        *)
(*                                                                         *)
(* Requests are handled by concurrent threads.  One action is one step of  *)
(* a handler that reads or writes state shared between threads (the JOBS   *)
(* dictionary, the filesystem, the clock); purely local computation is     *)
(* folded into the step that follows it.                                   *)
(***************************************************************************)
EXTENDS Integers, Sequences, FiniteSets, TLC

VARIABLES JOBS, disk, clock, ticks, nextId, requests, th

vars == <<JOBS, disk, clock, ticks, nextId, requests, th>>

(***************************************************************************)
(* Bounds of the model and constants of the program.                       *)
(***************************************************************************)
NThreads == 2
MaxJobs == 2
MaxTicks == 1
MaxRequests == 3
MaxMembers == 3

TTL_SECONDS == 900

Threads == 1..NThreads
JobIds == 1..MaxJobs

(***************************************************************************)
(* Paths.  A path is the sequence of its segments below the directory in   *)
(* which tempfile.mkdtemp creates the working directories; the empty       *)
(* sequence stands for Python's None where a path is optional.             *)
(***************************************************************************)
NoPath == <<>>

IsPrefix(p, q) == Len(p) <= Len(q) /\ SubSeq(q, 1, Len(p)) = p

IsProperPrefix(p, q) == Len(p) < Len(q) /\ SubSeq(q, 1, Len(p)) = p

Parent(p) == SubSeq(p, 1, Len(p) - 1)

\* pathlib: p.parents[k]
Parents(p, k) == SubSeq(p, 1, Len(p) - 1 - k)

Name(p) == p[Len(p)]

\* pathlib: ".." in p.parts, "__MACOSX" in p.parts
InParts(s, p) == \E i \in 1..Len(p) : p[i] = s

EmptyDisk == [p \in {} |-> "dir"]

Exists(d, p) == p \in DOMAIN d

IsDir(d, p) == p \in DOMAIN d /\ d[p] = "dir"

IsFile(d, p) == p \in DOMAIN d /\ d[p] = "file"

\* the entries of d, with the entries of e added or replaced
Overlay(d, e) ==
    [p \in DOMAIN d \cup DOMAIN e |-> IF p \in DOMAIN e THEN e[p] ELSE d[p]]

\* the strict ancestors of p that lie strictly below base
Between(base, p) ==
    {SubSeq(p, 1, n) : n \in (Len(base) + 1)..(Len(p) - 1)}

\* shutil.rmtree(root, ignore_errors=True)
rmtree(d, root) == [p \in {q \in DOMAIN d : ~IsPrefix(root, q)} |-> d[p]]

\* tempfile.mkdtemp(prefix=f"job_{job_id}_")
workdir_of(job_id) == <<"job_" \o ToString(job_id)>>

zip_path_of(job_id) == workdir_of(job_id) \o <<"upload.zip">>

extract_dir_of(job_id) == workdir_of(job_id) \o <<"src">>

\* the working directory that contains path p
WorkdirOfPath(p) == SubSeq(p, 1, 1)

\* everything on disk inside the directory root, root included
Subtree(d, root) == {p \in DOMAIN d : IsPrefix(root, p)}

(***************************************************************************)
(* Archive members.  A member's filename is kept as written in the         *)
(* archive: whether it starts with "/", its segments between the slashes,  *)
(* and whether it ends with "/" (a directory member).                      *)
(***************************************************************************)
Member(abs, segs, isdir) == [abs |-> abs, segs |-> segs, isdir |-> isdir]

\* Path(member.filename).parts without the root: pathlib drops "." segments
PathParts(m) == SelectSeq(m.segs, LAMBDA s : s # ".")

\* Path(member.filename).is_absolute()
IsAbsolute(m) == m.abs

RECURSIVE Resolve(_)
\* Path.resolve() of a path without symbolic links: ".." steps to the parent
Resolve(p) ==
    IF \A i \in 1..Len(p) : p[i] # ".." THEN p
    ELSE LET i == CHOOSE k \in 1..Len(p) :
                      p[k] = ".." /\ \A j \in 1..(k - 1) : p[j] # ".."
         IN  Resolve(SubSeq(p, 1, i - 2) \o SubSeq(p, i + 1, Len(p)))

(***************************************************************************)
(* safe_extract_zip                                                        *)
(***************************************************************************)
\* dest_dir / member_path: joining an absolute path replaces dest_dir
TargetPath(dest_dir, m) ==
    IF IsAbsolute(m) THEN <<"/">> \o PathParts(m) ELSE dest_dir \o PathParts(m)

\* member_path.is_absolute() or ".." in member_path.parts
UnsafePath(m) == IsAbsolute(m) \/ InParts("..", PathParts(m))

\* dest_dir.resolve() not in target_path_parent.parents
\*     and target_path_parent != dest_dir.resolve()
UnsafeTarget(dest_dir, m) ==
    LET target_path_parent == Resolve(Parent(TargetPath(dest_dir, m)))
    IN  /\ ~IsProperPrefix(Resolve(dest_dir), target_path_parent)
        /\ target_path_parent # Resolve(dest_dir)

\* the first check of the loop body that raises for member m, if any
MemberRejected(dest_dir, m) == UnsafePath(m) \/ UnsafeTarget(dest_dir, m)

\* ZipFile.extract of one member: the name loses its "", "." and ".."
\* segments, missing parent directories are created, a directory member is
\* created unless it is there already, a file member is written (replacing a file).
\* Raises OSError when a file stands where a directory is needed or the
\* other way round.
ExtractMember(d, dest_dir, m) ==
    LET arcname == SelectSeq(m.segs, LAMBDA s : s \notin {".", ".."})
        targetpath == dest_dir \o arcname
        upperdirs == Between(dest_dir, targetpath)
        made == [p \in upperdirs |-> "dir"]
    IN  IF \E a \in upperdirs : IsFile(d, a)
        THEN [err |-> "OSError", disk |-> d]
        ELSE IF m.isdir
        THEN IF IsFile(d, targetpath)
             THEN [err |-> "OSError", disk |-> Overlay(d, made)]
             ELSE [err |-> "none",
                   disk |-> Overlay(d, Overlay(made, [p \in {targetpath} |-> "dir"]))]
        ELSE IF IsDir(d, targetpath)
             THEN [err |-> "OSError", disk |-> Overlay(d, made)]
             ELSE [err |-> "none",
                   disk |-> Overlay(d, Overlay(made, [p \in {targetpath} |-> "file"]))]

RECURSIVE ExtractAll(_, _, _)
\* z.extractall(dest_dir): the members in archive order, up to the first error
ExtractAll(d, dest_dir, members) ==
    IF members = <<>> THEN [err |-> "none", disk |-> d]
    ELSE LET r == ExtractMember(d, dest_dir, Head(members))
         IN  IF r.err # "none" THEN r
             ELSE ExtractAll(r.disk, dest_dir, Tail(members))

RECURSIVE safe_extract_zip_interleaved(_, _, _)
\* a variant that validates each member right before writing it
safe_extract_zip_interleaved(d, archive, dest_dir) ==
    IF ~archive.valid THEN [err |-> "BadZipFile", disk |-> d]
    ELSE IF archive.members = <<>> THEN [err |-> "none", disk |-> d]
    ELSE IF MemberRejected(dest_dir, Head(archive.members))
    THEN [err |-> "ValueError", disk |-> d]
    ELSE LET r == ExtractMember(d, dest_dir, Head(archive.members))
         IN  IF r.err # "none" THEN r
             ELSE safe_extract_zip_interleaved(r.disk,
                      [archive EXCEPT !.members = Tail(@)], dest_dir)

\* zipfile.ZipFile raises BadZipFile for a file that is no archive; the loop
\* raises ValueError at the first rejected member; only then extractall runs
safe_extract_zip(d, archive, dest_dir) ==
    IF ~archive.valid THEN [err |-> "BadZipFile", disk |-> d]
    ELSE IF \E i \in 1..Len(archive.members) :
                MemberRejected(dest_dir, archive.members[i])
    THEN [err |-> "ValueError", disk |-> d]
    ELSE ExtractAll(d, dest_dir, archive.members)

(***************************************************************************)
(* pick_make_dir                                                           *)
(***************************************************************************)
\* extract_root.iterdir()
Children(d, dir) == {p \in DOMAIN d : Len(p) = Len(dir) + 1 /\ IsPrefix(dir, p)}

\* dir.rglob("Makefile"), without the paths that have a "__MACOSX" part
Makefiles(d, dir) ==
    {p \in DOMAIN d : /\ IsProperPrefix(dir, p)
                      /\ Name(p) = "Makefile"
                      /\ ~InParts("__MACOSX", p)}

\* the parents of the paths that a sort by depth below base may put first
\* (sort is stable and rglob's order is the directory order of the filesystem)
ShallowestParents(paths, base) ==
    {Parent(p) : p \in {q \in paths : \A o \in paths : Len(q) <= Len(o)}}

\* a variant whose loop returns the parent of the first path rglob yields
pick_make_dir_first_found(d, extract_root) ==
    LET makefiles == Makefiles(d, extract_root)
    IN  IF makefiles = {}
        THEN [err |-> "FileNotFoundError", dirs |-> {}]
        ELSE [err |-> "none", dirs |-> {Parent(m) : m \in makefiles}]

\* [err, dirs]: the exception raised, or the directories the call may return
pick_make_dir(d, extract_root) ==
    LET entries == {p \in Children(d, extract_root) : Name(p) # "__MACOSX"}
        top_dirs == {p \in entries : IsDir(d, p)}
        top_files == {p \in entries : IsFile(d, p)}
        makefiles == Makefiles(d, extract_root)
    IN  IF makefiles = {}
        THEN [err |-> "FileNotFoundError", dirs |-> {}]
        ELSE IF \E m \in makefiles : Resolve(Parent(m)) = Resolve(extract_root)
        THEN [err |-> "none", dirs |-> {extract_root}]
        ELSE IF Cardinality(top_dirs) = 1 /\ top_files = {}
        THEN LET base == CHOOSE p \in top_dirs : TRUE
                 candidates == Makefiles(d, base)
             IN  IF candidates = {}
                 THEN [err |-> "IndexError", dirs |-> {}]
                 ELSE [err |-> "none", dirs |-> ShallowestParents(candidates, base)]
        ELSE [err |-> "none", dirs |-> ShallowestParents(makefiles, extract_root)]

(***************************************************************************)
(* find_output_pdf                                                         *)
(***************************************************************************)
pdf_of(make_dir) == make_dir \o <<"build", "pdf", "zadatak.pdf">>

\* a variant that returns the fixed output path without looking at the disk
find_output_pdf_unchecked(d, make_dir) ==
    [err |-> "none", pdf |-> pdf_of(make_dir)]

\* [err, pdf]
find_output_pdf(d, make_dir) ==
    IF ~Exists(d, pdf_of(make_dir))
    THEN [err |-> "ValueError", pdf |-> NoPath]
    ELSE [err |-> "none", pdf |-> pdf_of(make_dir)]

(***************************************************************************)
(* The JOBS dictionary: job_id -> (pdf_path, created), kept as the         *)
(* sequence of its items in insertion order, as a Python dict iterates.    *)
(***************************************************************************)
Keys(J) == {J[i].job_id : i \in 1..Len(J)}

Items(J) == {J[i] : i \in 1..Len(J)}

\* JOBS[k] for a key that is present
Get(J, k) == J[CHOOSE i \in 1..Len(J) : J[i].job_id = k]

\* JOBS[k] = (pdf_path, created), written as one step with the key's old items gone
dict_set_lossy(J, k, pdf_path, created) ==
    <<[job_id |-> k, pdf_path |-> pdf_path, created |-> created]>>

\* JOBS[k] = (pdf_path, created): a present key keeps its place, a new one goes last
dict_set(J, k, pdf_path, created) ==
    LET item == [job_id |-> k, pdf_path |-> pdf_path, created |-> created]
    IN  IF k \in Keys(J)
        THEN [i \in 1..Len(J) |-> IF J[i].job_id = k THEN item ELSE J[i]]
        ELSE Append(J, item)

\* the dictionary after JOBS.pop(k, default)
dict_pop(J, k) == SelectSeq(J, LAMBDA e : e.job_id # k)

\* JOBS.pop(k) without a default: a key that is gone raises KeyError
jobs_pop_strict(J, k) ==
    IF k \in Keys(J)
    THEN [err |-> "none", pdf_path |-> Get(J, k).pdf_path, jobs |-> dict_pop(J, k)]
    ELSE [err |-> "KeyError", pdf_path |-> NoPath, jobs |-> J]

\* line 266, pdf_path, _ = JOBS.pop(k, (None, None)): [err, pdf_path, jobs];
\* a key that is gone yields the default, whose pdf_path is None
jobs_pop(J, k) ==
    IF k \in Keys(J)
    THEN [err |-> "none", pdf_path |-> Get(J, k).pdf_path, jobs |-> dict_pop(J, k)]
    ELSE [err |-> "none", pdf_path |-> NoPath, jobs |-> J]

(***************************************************************************)
(* Requests.  A file name is the sequence of its characters.               *)
(***************************************************************************)
LowerChar(c) ==
    CASE c = "A" -> "a" [] c = "Z" -> "z" [] c = "I" -> "i" [] c = "P" -> "p"
      [] c = "T" -> "t" [] c = "X" -> "x" [] OTHER -> c

\* str.lower()
Lower(name) == [i \in 1..Len(name) |-> LowerChar(name[i])]

\* str.endswith(suffix)
EndsWith(name, suffix) ==
    /\ Len(suffix) <= Len(name)
    /\ SubSeq(name, Len(name) - Len(suffix) + 1, Len(name)) = suffix

DotZip == <<".", "z", "i", "p">>

BadArchive == [valid |-> FALSE, members |-> <<>>]

NoUpload == [hasfile |-> FALSE, filename |-> <<>>, archive |-> BadArchive]

File(segs) == Member(FALSE, segs, FALSE)

\* the uploads that build requests of the server specification carry
SampleArchives ==
    { BadArchive,
      [valid |-> TRUE, members |-> <<File(<<"hw", "Makefile">>)>>],
      [valid |-> TRUE, members |-> <<File(<<"hw", "readme">>)>>],
      [valid |-> TRUE, members |-> <<File(<<"readme">>), File(<<"..", "evil">>)>>] }

Uploads ==
    { NoUpload,
      [hasfile |-> TRUE, filename |-> <<>>, archive |-> BadArchive],
      [hasfile |-> TRUE, filename |-> <<"a", ".", "t", "x", "t">>, archive |-> BadArchive],
      [hasfile |-> TRUE, filename |-> <<"A", ".", "Z", "I", "P">>,
       archive |-> [valid |-> TRUE, members |-> <<File(<<"Makefile">>)>>]] }
    \cup {[hasfile |-> TRUE, filename |-> <<"a">> \o DotZip, archive |-> a] :
             a \in SampleArchives}

\* the checks of lines 159-164 alone, without the check of the file name's suffix
UploadRejected_any_name(u) ==
    \/ ~u.hasfile
    \/ u.filename = <<>>

\* lines 159-167: build aborts with 400 before it allocates anything
UploadRejected(u) ==
    \/ ~u.hasfile
    \/ u.filename = <<>>
    \/ ~EndsWith(Lower(u.filename), DotZip)

(***************************************************************************)
(* Threads.  th[t] holds the request thread t is handling and the locals   *)
(* of the handler: pc is the step the thread takes next.                   *)
(***************************************************************************)
Idle ==
    [pc |-> "idle", kind |-> "none", upload |-> NoUpload, arg |-> 0,
     now |-> 0, expired |-> <<>>, popped |-> NoPath,
     job_id |-> 0, make_dir |-> NoPath, proc |-> "none", pdf_path |-> NoPath,
     created |-> 0, entry |-> <<>>, err |-> "none", status |-> 0]

Init ==
    /\ JOBS = <<>>
    /\ disk = EmptyDisk
    /\ clock = 0
    /\ ticks = 0
    /\ nextId = 1
    /\ requests = 0
    /\ th = [t \in Threads |-> Idle]

\* the view function a request is routed to once before_request has returned
HandlerPc(kind) ==
    CASE kind = "index" -> "index"
      [] kind = "build" -> "build_prepare"
      [] kind = "done" -> "done"
      [] kind = "download" -> "download_get"

\* the thread returns its response: status and, if an exception escaped, its name
Respond(r, status, err) == [r EXCEPT !.pc = "respond", !.status = status, !.err = err]

\* build requests that have not drawn their job id yet
WillDrawId(t) ==
    /\ th[t].kind = "build"
    /\ th[t].pc \in {"hk_snapshot", "hk_pop", "hk_rmtree", "build_prepare"}
    /\ ~UploadRejected(th[t].upload)

\* time passes: a time-to-live, or a second more than that
Tick ==
    /\ ticks < MaxTicks
    /\ \E d \in {TTL_SECONDS, TTL_SECONDS + 1} : clock' = clock + d
    /\ ticks' = ticks + 1
    /\ UNCHANGED <<JOBS, disk, nextId, requests, th>>

\* the requests a client may send: GET /, POST /build, GET /done/<job_id>,
\* GET /download/<job_id>
Requests ==
    {[kind |-> "index", upload |-> NoUpload, arg |-> 0]}
    \cup {[kind |-> "build", upload |-> u, arg |-> 0] : u \in Uploads}
    \cup {[kind |-> k, upload |-> NoUpload, arg |-> a] :
             k \in {"done", "download"}, a \in JobIds}

\* a request arrives and thread t takes it; before_request runs housekeeping
\* first, which begins with line 257: now = time.time()
StartRequest(t) ==
    /\ th[t].pc = "idle"
    /\ requests < MaxRequests
    /\ requests' = requests + 1
    /\ \E r \in Requests :
           /\ (r.kind = "build" /\ ~UploadRejected(r.upload)) =>
                nextId + Cardinality({o \in Threads : WillDrawId(o)}) <= MaxJobs
           /\ th' = [th EXCEPT ![t] =
                       [Idle EXCEPT !.pc = "hk_snapshot", !.kind = r.kind,
                                    !.upload = r.upload, !.arg = r.arg,
                                    !.now = clock]]
    /\ UNCHANGED <<JOBS, disk, clock, ticks, nextId>>

(***************************************************************************)
(* housekeeping / cleanup_expired_jobs                                     *)
(***************************************************************************)
\* the comparison of line 261 with its operands exchanged
IsExpired_swapped(now, created) == created - now > TTL_SECONDS

\* the comparison of line 261 with >= in place of >
IsExpired_inclusive(now, created) == now - created >= TTL_SECONDS

\* the comparison of line 261 against a time-to-live counted in minutes
IsExpired_minutes(now, created) == now - created > TTL_SECONDS * 60

\* line 261
IsExpired(now, created) == now - created > TTL_SECONDS

\* lines 258-262: the keys of the snapshot list(JOBS.items()) that are expired
ExpiredKeys(J, now) ==
    LET old == SelectSeq(J, LAMBDA e : IsExpired(now, e.created))
    IN  [i \in 1..Len(old) |-> old[i].job_id]

\* where the thread goes when `remaining` is what is left of the expired list
AfterSweep(r, remaining) ==
    [r EXCEPT !.expired = remaining,
              !.pc = IF remaining = <<>> THEN HandlerPc(r.kind) ELSE "hk_pop"]

\* lines 258-262: the snapshot of the dictionary and the expired list
hk_snapshot(t) ==
    /\ th[t].pc = "hk_snapshot"
    /\ th' = [th EXCEPT ![t] = AfterSweep(@, ExpiredKeys(JOBS, th[t].now))]
    /\ UNCHANGED <<JOBS, disk, clock, ticks, nextId, requests>>

\* lines 264-267: JOBS.pop(job_id, (None, None)) for the next expired key;
\* an exception in the hook would end the request with status 500
hk_pop(t) ==
    /\ th[t].pc = "hk_pop"
    /\ LET r == jobs_pop(JOBS, Head(th[t].expired))
       IN  /\ JOBS' = r.jobs
           /\ th' = [th EXCEPT ![t] =
                      IF r.err # "none" THEN Respond(@, 500, r.err)
                      ELSE IF r.pdf_path # NoPath
                      THEN [@ EXCEPT !.pc = "hk_rmtree", !.popped = r.pdf_path]
                      ELSE AfterSweep(@, Tail(th[t].expired))]
    /\ UNCHANGED <<disk, clock, ticks, nextId, requests>>

\* line 268
job_root_of(pdf_path) == Parents(pdf_path, 2)

\* lines 267-269: shutil.rmtree(job_root, ignore_errors=True)
hk_rmtree(t) ==
    /\ th[t].pc = "hk_rmtree"
    /\ disk' = rmtree(disk, job_root_of(th[t].popped))
    /\ th' = [th EXCEPT ![t] = AfterSweep([@ EXCEPT !.popped = NoPath], Tail(th[t].expired))]
    /\ UNCHANGED <<JOBS, clock, ticks, nextId, requests>>

(***************************************************************************)
(* index, build, done, download                                            *)
(***************************************************************************)
\* lines 152-154
index(t) ==
    /\ th[t].pc = "index"
    /\ th' = [th EXCEPT ![t] = Respond(@, 200, "none")]
    /\ UNCHANGED <<JOBS, disk, clock, ticks, nextId, requests>>

\* line 169: uuid.uuid4().hex, an identifier no earlier call has returned
uuid4 == nextId

\* a timeout handler that answers without removing the working directory
timeout_cleanup_skipped(d, workdir) == d

\* line 209: shutil.rmtree(workdir, ignore_errors=True)
timeout_cleanup(d, workdir) == rmtree(d, workdir)

\* lines 170-176: mkdtemp, extract_dir.mkdir and f.save(zip_path)
WithWorkdir(d, job_id) ==
    Overlay(d, (workdir_of(job_id) :> "dir") @@ (extract_dir_of(job_id) :> "dir")
               @@ (zip_path_of(job_id) :> "file"))

\* lines 159-183: the checks of the upload (abort 400), the job id, the
\* working directory and the saved upload, safe_extract_zip (BadZipFile and
\* ValueError become abort(400)) and pick_make_dir.  Any other exception
\* escapes the handler and Flask answers 500.  All files written are below the
\* request's own working directory.
build_prepare(t) ==
    /\ th[t].pc = "build_prepare"
    /\ IF UploadRejected(th[t].upload)
       THEN /\ th' = [th EXCEPT ![t] = Respond(@, 400, "none")]
            /\ UNCHANGED <<disk, nextId>>
       ELSE LET job_id == uuid4
                extract_dir == extract_dir_of(job_id)
                x == safe_extract_zip(WithWorkdir(disk, job_id),
                                      th[t].upload.archive, extract_dir)
                m == pick_make_dir(x.disk, extract_dir)
                r == [th[t] EXCEPT !.job_id = job_id]
            IN  /\ nextId' = nextId + 1
                /\ disk' = x.disk
                /\ IF x.err \in {"BadZipFile", "ValueError"}
                   THEN th' = [th EXCEPT ![t] = Respond(r, 400, x.err)]
                   ELSE IF x.err # "none"
                   THEN th' = [th EXCEPT ![t] = Respond(r, 500, x.err)]
                   ELSE IF m.err # "none"
                   THEN th' = [th EXCEPT ![t] = Respond(r, 500, m.err)]
                   ELSE \E make_dir \in m.dirs :
                          th' = [th EXCEPT ![t] = [r EXCEPT !.pc = "build_make",
                                                      !.make_dir = make_dir]]
    /\ UNCHANGED <<JOBS, clock, ticks, requests>>

\* how much of its output make may have written when it stops
MakeProgress == {0, 3}

\* what make has written: the first n of build, build/pdf and build/pdf/zadatak.pdf
MakeOutput(make_dir, n) ==
    LET chain == <<make_dir \o <<"build">>, make_dir \o <<"build", "pdf">>,
                   pdf_of(make_dir)>>
    IN  [p \in {chain[i] : i \in 1..n} |-> IF p = pdf_of(make_dir) THEN "file" ELSE "dir"]

\* lines 186-202 and 208-210: make runs in make_dir; it exits with status 0
\* or not, or is killed at the deadline (TimeoutExpired: the working directory
\* is removed and the answer is 504).  A nonzero exit status is answered with
\* 500 and the log; the ValueError of find_output_pdf is raised outside the
\* inner try and escapes.
build_make(t) ==
    /\ th[t].pc = "build_make"
    /\ \E n \in MakeProgress, proc \in {"timeout", "exit0", "exit1"} :
         LET d == Overlay(disk, MakeOutput(th[t].make_dir, n))
             f == find_output_pdf(d, th[t].make_dir)
             r == [th[t] EXCEPT !.proc = proc]
         IN  /\ disk' = IF proc = "timeout"
                        THEN timeout_cleanup(d, workdir_of(th[t].job_id)) ELSE d
             /\ th' = [th EXCEPT ![t] =
                         IF proc = "timeout" THEN Respond(r, 504, "none")
                         ELSE IF proc # "exit0" THEN Respond(r, 500, "none")
                         ELSE IF f.err # "none" THEN Respond(r, 500, f.err)
                         ELSE [r EXCEPT !.pc = "build_insert", !.pdf_path = f.pdf]]
    /\ UNCHANGED <<JOBS, clock, ticks, nextId, requests>>

\* lines 204-206: JOBS[job_id] = (pdf_path, time.time()), then the redirect
build_insert(t) ==
    /\ th[t].pc = "build_insert"
    /\ JOBS' = dict_set(JOBS, th[t].job_id, th[t].pdf_path, clock)
    /\ th' = [th EXCEPT ![t] = Respond([@ EXCEPT !.created = clock], 302, "none")]
    /\ UNCHANGED <<disk, clock, ticks, nextId, requests>>

\* lines 212-217
done(t) ==
    /\ th[t].pc = "done"
    /\ th' = [th EXCEPT ![t] =
                IF th[t].arg \notin Keys(JOBS) THEN Respond(@, 404, "none")
                ELSE Respond(@, 200, "none")]
    /\ UNCHANGED <<JOBS, disk, clock, ticks, nextId, requests>>

\* a lookup that ignores the key and yields the oldest item
dict_get_first(J, k) == IF J # <<>> THEN <<J[1]>> ELSE <<>>

\* JOBS.get(job_id): the item as a one-element sequence, empty for None
dict_get(J, k) == IF k \in Keys(J) THEN <<Get(J, k)>> ELSE <<>>

\* lines 239-241
download_get(t) ==
    /\ th[t].pc = "download_get"
    /\ LET entry == dict_get(JOBS, th[t].arg)
       IN  th' = [th EXCEPT ![t] =
                    IF entry = <<>> THEN Respond(@, 404, "none")
                    ELSE [@ EXCEPT !.pc = "download_exists", !.entry = entry]]
    /\ UNCHANGED <<JOBS, disk, clock, ticks, nextId, requests>>

\* lines 243-245
download_exists(t) ==
    /\ th[t].pc = "download_exists"
    /\ th' = [th EXCEPT ![t] =
                IF ~Exists(disk, th[t].entry[1].pdf_path) THEN Respond(@, 404, "none")
                ELSE [@ EXCEPT !.pc = "download_send"]]
    /\ UNCHANGED <<JOBS, disk, clock, ticks, nextId, requests>>

\* lines 247-254: send_file opens the file; a missing file raises
\* FileNotFoundError, which nothing catches
download_send(t) ==
    /\ th[t].pc = "download_send"
    /\ th' = [th EXCEPT ![t] =
                IF IsFile(disk, th[t].entry[1].pdf_path) THEN Respond(@, 200, "none")
                ELSE Respond(@, 500, "FileNotFoundError")]
    /\ UNCHANGED <<JOBS, disk, clock, ticks, nextId, requests>>

\* the response has been sent; the thread is free for the next request
Finish(t) ==
    /\ th[t].pc = "respond"
    /\ th' = [th EXCEPT ![t] = Idle]
    /\ UNCHANGED <<JOBS, disk, clock, ticks, nextId, requests>>

Next ==
    \/ Tick
    \/ \E t \in Threads :
         \/ StartRequest(t)
         \/ hk_snapshot(t)
         \/ hk_pop(t)
         \/ hk_rmtree(t)
         \/ index(t)
         \/ build_prepare(t)
         \/ build_make(t)
         \/ build_insert(t)
         \/ done(t)
         \/ download_get(t)
         \/ download_exists(t)
         \/ download_send(t)
         \/ Finish(t)

Spec == Init /\ [][Next]_vars

(***************************************************************************)
(* The extraction specification: one build request whose upload is any     *)
(* archive of at most MaxMembers members drawn from MemberPool, taken from *)
(* the point where its housekeeping has found nothing to reclaim.          *)
(***************************************************************************)
MemberPool ==
    { File(<<"Makefile">>),
      File(<<"hw", "Makefile">>),
      File(<<"hw", "sub", "Makefile">>),
      File(<<"lab", "Makefile">>),
      File(<<"__MACOSX", "Makefile">>),
      File(<<"readme">>),
      File(<<"hw">>),
      File(<<"..", "evil">>),
      Member(TRUE, <<"etc", "passwd">>, FALSE),
      Member(FALSE, <<".">>, TRUE),
      Member(FALSE, <<"hw", "Makefile">>, TRUE),
      File(<<"hw", "sub", "deep", "Makefile">>),
      File(<<"hw", "__MACOSX", "Makefile">>) }

ArchivesUpTo(n) ==
    {BadArchive}
    \cup UNION {{[valid |-> TRUE, members |-> ms] : ms \in [1..k -> MemberPool]} : k \in 0..n}

InitExtract ==
    /\ JOBS = <<>>
    /\ disk = EmptyDisk
    /\ clock = 0
    /\ ticks = 0
    /\ nextId = 1
    /\ requests = 1
    /\ \E a \in ArchivesUpTo(MaxMembers) :
         th = [t \in Threads |->
                 IF t = 1
                 THEN [Idle EXCEPT !.pc = "build_prepare", !.kind = "build",
                                   !.upload = [hasfile |-> TRUE,
                                               filename |-> <<"a">> \o DotZip,
                                               archive |-> a]]
                 ELSE Idle]

NextExtract == \E t \in Threads : build_prepare(t)

SpecExtract == InitExtract /\ [][NextExtract]_vars

(***************************************************************************)
(* Properties                                                              *)
(***************************************************************************)
HkPcs == {"hk_snapshot", "hk_pop", "hk_rmtree"}

\* thread t handles a build request that has created its working directory
HasWorkdir(t) == th[t].kind = "build" /\ th[t].job_id # 0

\* C1: a build request that has created a working directory and fails before
\* a job is recorded leaves no working directory on disk when it completes.
C1_FailedBuildLeavesNoWorkdir ==
    \A t \in Threads :
        (HasWorkdir(t) /\ th[t].pc = "respond" /\ th[t].status # 302)
            => Subtree(disk, workdir_of(th[t].job_id)) = {}

\* C2: when the sweep has removed a job and deleted its directory, nothing of
\* the job's working directory remains on disk.
C2_SweepDeletesWorkdir ==
    [][\A t \in Threads :
          (th[t].pc = "hk_rmtree" /\ th'[t].pc # "hk_rmtree")
              => Subtree(disk', WorkdirOfPath(th[t].popped)) = {}]_vars

\* thread t has finished the sweep of its request and not yet answered
PastSweep(t) == th[t].kind # "none" /\ th[t].pc \notin HkPcs

\* the request that drew job id j is over, or never was, and j is not in the store
Gone(j) ==
    /\ j \notin Keys(JOBS)
    /\ j < nextId
    /\ \A t \in Threads : ~(HasWorkdir(t) /\ th[t].job_id = j /\ th[t].pc # "respond")

\* C3: once a sweep that began after a job's time-to-live has passed is over,
\* the job's entry is not in the store; an identifier that is gone stays gone,
\* and a lookup (done, download) of an identifier not in the store answers 404.
C3_ExpiredJobNotFound ==
    /\ [](\A t \in Threads : PastSweep(t) =>
             \A e \in Items(JOBS) : ~(th[t].now - e.created > TTL_SECONDS))
    /\ [][/\ \A j \in JobIds : Gone(j) => Gone(j)'
          /\ \A t \in Threads :
               (/\ th[t].pc \in {"done", "download_get"}
                /\ th'[t].pc # th[t].pc
                /\ th[t].arg \notin Keys(JOBS))
                   => (th'[t].pc = "respond" /\ th'[t].status = 404)]_vars

C3_Witness ==
    \E t, s \in Threads :
        /\ th[s].pc = "hk_rmtree"
        /\ th[t].pc = "respond" /\ th[t].kind \in {"done", "download"}
        /\ th[t].arg = Head(th[s].expired)
        /\ th[t].status = 404
        /\ clock > TTL_SECONDS

\* C4: a build whose make invocation times out is answered 504, no job is in
\* the store for it, and its working directory is gone from disk.
C4_TimeoutReclaimsWorkdir ==
    \A t \in Threads :
        th[t].proc = "timeout" =>
            /\ th[t].pc = "respond" /\ th[t].status = 504
            /\ th[t].job_id \notin Keys(JOBS)
            /\ Subtree(disk, workdir_of(th[t].job_id)) = {}

C4_Witness ==
    \E t \in Threads :
        /\ HasWorkdir(t) /\ th[t].proc = "timeout" /\ th[t].pc = "respond"
        /\ th[t].status = 504

\* the archive of thread t's upload has a member with an absolute path or a ".." segment
HasUnsafeMember(t) ==
    /\ th[t].upload.archive.valid
    /\ \E i \in 1..Len(th[t].upload.archive.members) :
           UnsafePath(th[t].upload.archive.members[i])

\* C5: when any member of the archive, at any position, has an absolute path
\* or a ".." segment, extraction fails with the unsafe-path error (ValueError)
\* and the extraction directory is as empty as it was created.
C5_ValidateThenExtract ==
    \A t \in Threads :
        (HasWorkdir(t) /\ HasUnsafeMember(t)) =>
            /\ th[t].pc = "respond" /\ th[t].err = "ValueError"
            /\ Subtree(disk, extract_dir_of(th[t].job_id)) = {extract_dir_of(th[t].job_id)}

C5_Witness ==
    \E t \in Threads :
        /\ HasWorkdir(t) /\ th[t].err = "ValueError"
        /\ Len(th[t].upload.archive.members) = 2
        /\ ~MemberRejected(extract_dir_of(th[t].job_id), th[t].upload.archive.members[1])
        /\ UnsafePath(th[t].upload.archive.members[2])

\* C6: a download ends with the artifact (200) or a clean not-found (404),
\* whatever sweeps other requests run meanwhile.
C6_DownloadEndsCleanly ==
    \A t \in Threads :
        (th[t].kind = "download" /\ th[t].pc = "respond") => th[t].status \in {200, 404}

\* thread t has taken the sweep's snapshot and still has entries to remove
InSweep(t) ==
    \/ th[t].pc = "hk_pop"
    \/ th[t].pc = "hk_rmtree" /\ Tail(th[t].expired) # <<>>

\* C7: no two threads are in the middle of a Job Store operation at once.
C7_StoreOperationsExclusive ==
    \A t, s \in Threads : (t # s /\ InSweep(t)) => ~InSweep(s)

\* C8: concurrent builds draw distinct identifiers; an inserted entry is in
\* the store with its own request's artifact path for as long as it has not
\* expired; a step removes from the store only entries that have expired.
C8_ConcurrentInsertsKept ==
    /\ [](/\ \A t, s \in Threads :
               (t # s /\ HasWorkdir(t) /\ HasWorkdir(s)) => th[t].job_id # th[s].job_id
          /\ \A t \in Threads :
               (/\ HasWorkdir(t) /\ th[t].pc = "respond" /\ th[t].status = 302
                /\ ~(clock - th[t].created > TTL_SECONDS))
                   => /\ th[t].job_id \in Keys(JOBS)
                      /\ Get(JOBS, th[t].job_id).pdf_path = th[t].pdf_path
                      /\ IsPrefix(workdir_of(th[t].job_id), th[t].pdf_path))
    /\ [][\A e \in Items(JOBS) :
             e \notin Items(JOBS') => clock - e.created > TTL_SECONDS]_vars

C8_Witness ==
    \E t, s \in Threads :
        /\ t # s
        /\ th[t].pc = "respond" /\ th[t].status = 302
        /\ th[s].pc = "respond" /\ th[s].status = 302
        /\ {th[t].job_id, th[s].job_id} \subseteq Keys(JOBS)

\* C9: a download's lookup yields the artifact path that the build request
\* of that identifier supplied when it created the job, and no step changes
\* the artifact path or the creation time of an entry that stays in the store.
C9_LookupYieldsCreated ==
    /\ [](\A d, b \in Threads :
             (/\ th[d].kind = "download" /\ th[d].entry # <<>>
              /\ HasWorkdir(b) /\ th[b].status = 302 /\ th[b].job_id = th[d].arg)
                 => /\ th[d].entry[1].pdf_path = th[b].pdf_path
                    /\ th[d].entry[1].created = th[b].created)
    /\ [][\A e \in Items(JOBS) :
             e.job_id \in Keys(JOBS') => e \in Items(JOBS')]_vars

C9_Witness ==
    \E d, b \in Threads :
        /\ th[d].kind = "download" /\ th[d].entry # <<>>
        /\ HasWorkdir(b) /\ th[b].status = 302 /\ th[b].job_id = th[d].arg
        /\ Len(JOBS) = 2

\* C10: when the extracted archive holds no Makefile, pick_make_dir raises
\* FileNotFoundError and the build request is answered with a 4xx status.
C10_NoDescriptorIs4xx ==
    \A t \in Threads :
        (/\ HasWorkdir(t) /\ th[t].pc = "respond" /\ th[t].proc = "none"
         /\ th[t].err \notin {"BadZipFile", "ValueError", "OSError"}
         /\ \A p \in Subtree(disk, extract_dir_of(th[t].job_id)) : Name(p) # "Makefile")
            => /\ th[t].err = "FileNotFoundError"
               /\ th[t].status \in 400..499

(***************************************************************************)
(* pick_make_dir on extracted trees (SpecExtract)                          *)
(***************************************************************************)
\* thread t extracted its archive completely and pick_make_dir was called
Picked(t) ==
    /\ HasWorkdir(t)
    /\ th[t].pc # "build_prepare"
    /\ th[t].err \notin {"BadZipFile", "ValueError", "OSError"}

\* the descriptor files of the tree below root: the regular files named
\* Makefile outside the __MACOSX directories
DescriptorFiles(d, root) ==
    {p \in DOMAIN d : /\ IsProperPrefix(root, p)
                      /\ Name(p) = "Makefile"
                      /\ IsFile(d, p)
                      /\ ~InParts("__MACOSX", p)}

\* lines 111-113: the root holds exactly one directory and no file, __MACOSX aside
SingleWrapper(d, root) ==
    LET entries == {p \in Children(d, root) : Name(p) # "__MACOSX"}
    IN  /\ Cardinality({p \in entries : IsDir(d, p)}) = 1
        /\ {p \in entries : IsFile(d, p)} = {}

\* the directories that hold a descriptor file of minimum depth
ShallowestDescriptorDirs(d, root) ==
    LET fs == DescriptorFiles(d, root)
    IN  {Parent(p) : p \in {q \in fs : \A o \in fs : Len(q) <= Len(o)}}

C12_WrapperPicksShallowest ==
    \A t \in Threads :
        LET root == extract_dir_of(th[t].job_id)
        IN  (/\ Picked(t)
             /\ SingleWrapper(disk, root)
             /\ Cardinality({Len(p) : p \in DescriptorFiles(disk, root)}) >= 2)
            => /\ th[t].pc = "build_make"
               /\ th[t].make_dir \in ShallowestDescriptorDirs(disk, root)

(***************************************************************************)
(* The server (Spec)                                                       *)
(***************************************************************************)
\* C13: a download request that arrives when the job it names is older than
\* the time-to-live never finds the entry: it is answered 404, never 200,
\* because its own sweep precedes the lookup
C13_ExpiredDownloadNotFound ==
    \A d \in Threads :
        th[d].kind = "download" =>
            /\ th[d].entry # <<>> =>
                   ~(th[d].now - th[d].entry[1].created > TTL_SECONDS)
            /\ (th[d].pc = "respond" /\ th[d].status # 404) => th[d].entry # <<>>
            /\ \A b \in Threads :
                   (/\ HasWorkdir(b) /\ th[b].status = 302
                    /\ th[b].job_id = th[d].arg
                    /\ th[d].now - th[b].created > TTL_SECONDS
                    /\ th[d].pc = "respond")
                       => th[d].status = 404

\* the download arrived after the time-to-live of a job whose build request
\* has not yet sent its redirect, and was answered 404
C13_Witness ==
    \E d, b \in Threads :
        /\ th[d].kind = "download" /\ th[d].pc = "respond" /\ th[d].status = 404
        /\ HasWorkdir(b) /\ th[b].status = 302 /\ th[b].job_id = th[d].arg
        /\ th[d].now - th[b].created > TTL_SECONDS

\* an upload that is an InvalidUpload: no file field, no file selected, or a
\* file name that does not end in .zip (in any letter case)
InvalidUpload(u) ==
    \/ ~u.hasfile
    \/ u.filename = <<>>
    \/ Lower(SubSeq(u.filename, Len(u.filename) - 3, Len(u.filename))) # DotZip

\* thread t takes the step from the unprimed to the primed state while it
\* handles a build request with an invalid upload
RejectedBuildStep(t) ==
    /\ th[t].kind = "build"
    /\ InvalidUpload(th[t].upload)
    /\ th'[t] # th[t]

\* C14 as stated: a build request rejected as InvalidUpload is answered with a
\* 4xx status, creates no working directory, and none of its steps changes
\* the job store or the filesystem
C14_RejectedUploadChangesNothing ==
    [][\A t \in Threads :
          RejectedBuildStep(t) =>
              /\ th'[t].job_id = 0
              /\ th'[t].pc = "respond" => th'[t].status \in 400..499
              /\ JOBS' = JOBS
              /\ disk' = disk]_vars

\* C14, amended: a build request rejected as InvalidUpload is answered with a
\* 4xx status and creates no working directory; the handler changes neither
\* the job store nor the filesystem, and the sweep that precedes it in the
\* same request only removes entries older than the time-to-live and the
\* job roots of the entries it removed
C14_RejectedUploadOnlySweeps ==
    [][\A t \in Threads :
          RejectedBuildStep(t) =>
              /\ th'[t].job_id = 0
              /\ nextId' = nextId
              /\ th'[t].pc = "respond" => th'[t].status \in 400..499
              /\ th[t].pc \notin HkPcs => (JOBS' = JOBS /\ disk' = disk)
              /\ th[t].pc \in HkPcs =>
                    /\ Items(JOBS') \subseteq Items(JOBS)
                    /\ \A e \in Items(JOBS) \ Items(JOBS') :
                          th[t].now - e.created > TTL_SECONDS
                    /\ \/ disk' = disk
                       \/ /\ th[t].popped # NoPath
                          /\ disk' = rmtree(disk, job_root_of(th[t].popped))]_vars

\* a rejected build request has been answered 400 while a job is in the
\* store and its files are on disk
C14_Witness ==
    \E t \in Threads :
        /\ th[t].kind = "build" /\ InvalidUpload(th[t].upload)
        /\ th[t].pc = "respond" /\ th[t].status = 400
        /\ th[t].job_id = 0
        /\ JOBS # <<>>
        /\ \E e \in Items(JOBS) : IsFile(disk, e.pdf_path)

\* C15: an entry enters the store only in the insertion step of a build
\* request whose make exited with status zero and whose artifact exists at
\* build/pdf/zadatak.pdf below its make directory at that moment; a build
\* request that ended otherwise has no entry in the store
C15_StoreHoldsSuccessfulBuilds ==
    /\ [][\A e \in Items(JOBS') \ Items(JOBS) :
             \E t \in Threads :
                 /\ HasWorkdir(t) /\ th[t].pc = "build_insert"
                 /\ th'[t].pc = "respond" /\ th'[t].status = 302
                 /\ th[t].proc = "exit0"
                 /\ e.job_id = th[t].job_id
                 /\ e.pdf_path = pdf_of(th[t].make_dir)
                 /\ Exists(disk, e.pdf_path)]_vars
    /\ [](\A t \in Threads :
             (th[t].kind = "build" /\ th[t].pc = "respond" /\ th[t].status # 302)
                 => th[t].job_id \notin Keys(JOBS))

\* one build of two has inserted its job; the other ended with an error after
\* it had drawn its identifier
C15_Witness ==
    \E t, s \in Threads :
        /\ HasWorkdir(t) /\ th[t].pc = "respond" /\ th[t].status = 302
        /\ th[t].proc = "exit0"
        /\ th[t].job_id \in Keys(JOBS)
        /\ IsFile(disk, th[t].pdf_path)
        /\ HasWorkdir(s) /\ th[s].pc = "respond" /\ th[s].status = 500
        /\ th[s].job_id \notin Keys(JOBS)

(***************************************************************************)
(* Archive validation (SpecExtract)                                        *)
(***************************************************************************)
\* the entries validation is to accept: the stored path is relative, has no
\* ".." segment, and its canonical destination is dest_dir or lies below it
SafeEntry(dest_dir, m) ==
    /\ ~m.abs
    /\ ~InParts("..", m.segs)
    /\ IsPrefix(Resolve(dest_dir), Resolve(TargetPath(dest_dir, m)))

\* C16: validation accepts every entry that is relative, has no ".." segment
\* and whose canonical destination is the destination directory or a
\* descendant of it ("." and "./" included), and rejects every other entry:
\* an archive is refused with ValueError exactly when one of its entries is
\* not such an entry
C16_ValidationAcceptsSafeEntries ==
    \A t \in Threads :
        (HasWorkdir(t) /\ th[t].pc # "build_prepare" /\ th[t].upload.archive.valid)
            => LET members == th[t].upload.archive.members
                   dest_dir == extract_dir_of(th[t].job_id)
               IN  (th[t].err = "ValueError")
                       <=> (\E i \in 1..Len(members) : ~SafeEntry(dest_dir, members[i]))

\* C17: whenever pick_make_dir returns for a tree with a descriptor file
\* outside the metadata directories, the directory returned lies within the
\* extraction root, has no __MACOSX part, directly contains a descriptor file,
\* and no descriptor file outside the metadata directories lies at a strictly
\* smaller depth, in the single-wrapper branch as in the general one
C17_PickedDirHoldsShallowestDescriptor ==
    \A t \in Threads :
        LET root == extract_dir_of(th[t].job_id)
            make_dir == th[t].make_dir
        IN  (/\ Picked(t) /\ th[t].pc = "build_make"
             /\ DescriptorFiles(disk, root) # {})
            => /\ IsPrefix(root, make_dir)
               /\ ~InParts("__MACOSX", make_dir)
               /\ IsFile(disk, make_dir \o <<"Makefile">>)
               /\ \A p \in DescriptorFiles(disk, root) : Len(p) >= Len(make_dir) + 1

(***************************************************************************)
(* The expiry sweep (Spec)                                                 *)
(***************************************************************************)
\* thread t takes a step of its sweep from the unprimed to the primed state
SweepStep(t) == th[t].pc \in HkPcs /\ th'[t] # th[t]

\* C18: a step of a sweep leaves every entry whose age at the sweep's reading
\* of the clock is at most the time-to-live (exactly equal included) in the
\* store as it is, and deletes nothing below that job's working directory,
\* whatever the sweep removes otherwise
C18_SweepSparesLiveJobs ==
    [][\A t \in Threads :
          SweepStep(t) =>
              \A e \in Items(JOBS) :
                  th[t].now - e.created <= TTL_SECONDS =>
                      /\ e \in Items(JOBS')
                      /\ \A p \in Subtree(disk, workdir_of(e.job_id)) :
                            p \in DOMAIN disk' /\ disk'[p] = disk[p]]_vars

\* a sweep has removed an expired entry and is about to delete its job root
\* while a younger job is in the store with its artifact on disk
C18_Witness ==
    \E t \in Threads :
        /\ th[t].pc = "hk_rmtree"
        /\ \E e \in Items(JOBS) :
              /\ th[t].now - e.created <= TTL_SECONDS
              /\ IsFile(disk, e.pdf_path)

\* C19: when several requests sweep concurrently with the same expired key in
\* their lists, the pop of exactly one of them removes the entry and goes on
\* to delete its job root, the pop of any other finds the key gone and skips
\* it with store and disk unchanged; after either step the key is absent, and
\* no request ends with an error raised in its sweep
C19_ConcurrentSweepsPopOnce ==
    /\ [][\A t \in Threads :
             (th[t].pc = "hk_pop" /\ th'[t] # th[t]) =>
                 LET job_id == Head(th[t].expired)
                 IN  /\ job_id \notin Keys(JOBS')
                     /\ th'[t].err = "none" /\ th'[t].status = 0
                     /\ job_id \in Keys(JOBS) =>
                           /\ th'[t].pc = "hk_rmtree"
                           /\ th'[t].popped = Get(JOBS, job_id).pdf_path
                     /\ job_id \notin Keys(JOBS) =>
                           /\ th'[t].pc \notin {"hk_rmtree", "respond"}
                           /\ th'[t].expired = Tail(th[t].expired)
                           /\ JOBS' = JOBS /\ disk' = disk]_vars
    /\ [](\A t, s \in Threads :
             (t # s /\ th[t].pc = "hk_rmtree" /\ th[s].pc = "hk_rmtree")
                 => Head(th[t].expired) # Head(th[s].expired))
    /\ [](\A t \in Threads :
             (th[t].pc \in HkPcs \/ th[t].kind = "index") => th[t].err = "none")

\* two sweeps hold the same expired key at the head of their lists: one has
\* removed the entry, the other is about to pop the key that is gone
C19_Witness ==
    \E t, s \in Threads :
        /\ t # s
        /\ th[t].pc = "hk_rmtree"
        /\ th[s].pc = "hk_pop"
        /\ Head(th[s].expired) = Head(th[t].expired)
        /\ Head(th[s].expired) \notin Keys(JOBS)
====
